---- MODULE Spec2Model ----
(***************************************************************************)
(* Model of the mappings-editor field utilities: getFieldMeta, normalize,  *)
(* deNormalize, updateFieldsPathAfterFieldNameChange, getAllChildFields,   *)
(* getMaxNestedDepth, shouldDeleteChildFieldsAfterTypeChange, isStateValid *)
(*                                                                         *)
(* Strings that the code splits or joins (field names, paths) are          *)
(* sequences of one-character strings.  A JS object (a Fields container,   *)
(* the State) is the sequence of its entries in Object.entries order.  An  *)
(* optional member is a record [present, ...].                             *)
(***************************************************************************)
EXTENDS Integers, Sequences, FiniteSets, TLC

\* ------------------------------------------------------------- bounds
MaxFields == 3      \* fields in one input tree, over all levels
MaxRenames == 2     \* renames applied to one normalized table
MaxEntries == 2     \* entries of a container handed to getFieldMeta
MaxSections == 3    \* keys of a State object handed to isStateValid

\* ------------------------------------------------------------- strings
Max(a, b) == IF a >= b THEN a ELSE b

RECURSIVE join(_)
\* Array.prototype.join('.') over an array of strings
join(parts) ==
  IF Len(parts) = 0 THEN <<>>
  ELSE IF Len(parts) = 1 THEN parts[1]
  ELSE parts[1] \o <<".">> \o join(Tail(parts))

RECURSIVE split(_)
\* String.prototype.split('.'): the empty string splits into one empty part
split(str) ==
  IF \A i \in 1..Len(str) : str[i] # "."
  THEN <<str>>
  ELSE LET i == CHOOSE k \in 1..Len(str) :
                  str[k] = "." /\ \A j \in 1..(k - 1) : str[j] # "."
       IN <<SubSeq(str, 1, i - 1)>> \o split(SubSeq(str, i + 1, Len(str)))

\* ------------------------------------------------------------- data types
DataTypes == {"text", "keyword", "object", "nested", "integer", "boolean", "date",
              "binary", "ip", "geo_point"}
\* a type string that is no data type
Unrecognized == "unrecognized"
TreeTypes == {"text", "object", "integer"}
\* the name a rename gives a field: one that holds a dot itself
NewNames == {<<"x", ".", "y">>}

NoContainer == [present |-> FALSE, entries |-> <<>>]
Container(entries) == [present |-> TRUE, entries |-> entries]

\* field[childFieldsName] for a childFieldsName that is set
childContainer(field, childFieldsName) ==
  IF childFieldsName = "properties" THEN field.properties ELSE field.fields

\* ------------------------------------------------------------- getFieldMeta
\* a variant of getChildFieldsName that leaves `keyword` out
getChildFieldsNameTextOnly(dataType) ==
  IF dataType = "text" THEN "fields"
  ELSE IF dataType = "object" \/ dataType = "nested" THEN "properties"
  ELSE "undefined"

getChildFieldsName(dataType) ==
  IF dataType = "text" \/ dataType = "keyword" THEN "fields"
  ELSE IF dataType = "object" \/ dataType = "nested" THEN "properties"
  ELSE "undefined"

\* truthiness of the optional boolean parameter isMultiField
truthy(flag) == flag = "true"

\* Boolean(field[name]) && Object.keys(field[name]).length > 0
hasEntries(field, childFieldsName) ==
  /\ childContainer(field, childFieldsName).present
  /\ Len(childContainer(field, childFieldsName).entries) > 0

getFieldMeta(field, isMultiField) ==
  LET childFieldsName == getChildFieldsName(field.type)
      canHaveChildFields ==
        IF truthy(isMultiField) THEN FALSE ELSE childFieldsName = "properties"
      hasChildFields ==
        IF truthy(isMultiField) THEN FALSE
        ELSE canHaveChildFields /\ hasEntries(field, childFieldsName)
      canHaveMultiFields ==
        IF truthy(isMultiField) THEN FALSE ELSE childFieldsName = "fields"
      hasMultiFields ==
        IF truthy(isMultiField) THEN FALSE
        ELSE canHaveMultiFields /\ hasEntries(field, childFieldsName)
  IN [childFieldsName |-> childFieldsName,
      canHaveChildFields |-> canHaveChildFields,
      hasChildFields |-> hasChildFields,
      canHaveMultiFields |-> canHaveMultiFields,
      hasMultiFields |-> hasMultiFields,
      childFields |-> [present |-> FALSE, ids |-> <<>>],
      isExpanded |-> FALSE]

\* ------------------------------------------------------------- input trees
Letters == <<"a", "b", "c", "d", "e", "f", "g", "h">>
\* the key of the i-th entry of a Fields object: the keys of one object are
\* pairwise distinct, every second one holds a dot
NameAt(i) == IF i % 2 = 1 THEN <<Letters[i]>> ELSE <<Letters[i], ".", "k">>

RECURSIVE FieldsFrom(_, _)
\* every Fields object holding at most n fields over all its levels, its
\* entries keyed NameAt(pos), NameAt(pos + 1), ...; a field has no container,
\* an empty `properties`, or either container with entries in it, whatever
\* its type
FieldsFrom(n, pos) ==
  IF n = 0 THEN {<<>>}
  ELSE {<<>>} \cup
       UNION { UNION {
         { <<[name |-> NameAt(pos), type |-> ty, properties |-> c.p, fields |-> c.f]>> \o rest :
             ty \in TreeTypes,
             c \in {[p |-> NoContainer, f |-> NoContainer]}
                   \cup {[p |-> Container(e), f |-> NoContainer] : e \in FieldsFrom(k, 1)}
                   \cup {[p |-> NoContainer, f |-> Container(e)] : e \in FieldsFrom(k, 1) \ {<<>>}} }
         : rest \in FieldsFrom(n - 1 - k, pos + 1) } : k \in 0..(n - 1) }

\* ------------------------------------------------------------- normalize
NoId == 0   \* parentId: undefined

\* uuid.v4(): an identifier no earlier call returned; `issued` counts the calls
getUniqueId(issued) == issued + 1

boolString(b) == IF b THEN "true" ELSE "false"

\* nextDepth of the recursion into the child container
nextDepthOf(meta, nestedDepth) ==
  IF meta.canHaveChildFields \/ meta.canHaveMultiFields
  THEN nestedDepth + 1 ELSE nestedDepth

\* a variant of trackMaxDepth that never raises the maximum
keepMaxDepth(maxNestedDepth, nextDepth) == maxNestedDepth

\* maxNestedDepth = Math.max(maxNestedDepth, nextDepth)
trackMaxDepth(maxNestedDepth, nextDepth) == Max(maxNestedDepth, nextDepth)

\* paths.length ? `${paths.join('.')}.${propName}` : propName
normalizedPath(paths, propName) ==
  IF Len(paths) # 0 THEN join(paths) \o <<".">> \o propName ELSE propName

\* const { properties, fields, ...rest } = field
sourceOf(field) == [name |-> field.name, type |-> field.type]

\* a variant of normalizedField that drops the parentId it is given
normalizedFieldNoParent(id, parentId, nestedDepth, isMultiField, path, field, meta) ==
  [id |-> id, parentId |-> NoId, nestedDepth |-> nestedDepth,
   isMultiField |-> isMultiField, path |-> path, source |-> sourceOf(field),
   childFieldsName |-> meta.childFieldsName,
   canHaveChildFields |-> meta.canHaveChildFields,
   hasChildFields |-> meta.hasChildFields,
   canHaveMultiFields |-> meta.canHaveMultiFields,
   hasMultiFields |-> meta.hasMultiFields,
   childFields |-> meta.childFields,
   isExpanded |-> meta.isExpanded]

\* { id, parentId, nestedDepth, isMultiField, path, source: rest, ...meta }
normalizedField(id, parentId, nestedDepth, isMultiField, path, field, meta) ==
  [id |-> id, parentId |-> parentId, nestedDepth |-> nestedDepth,
   isMultiField |-> isMultiField, path |-> path, source |-> sourceOf(field),
   childFieldsName |-> meta.childFieldsName,
   canHaveChildFields |-> meta.canHaveChildFields,
   hasChildFields |-> meta.hasChildFields,
   canHaveMultiFields |-> meta.canHaveMultiFields,
   hasMultiFields |-> meta.hasMultiFields,
   childFields |-> meta.childFields,
   isExpanded |-> meta.isExpanded]

RECURSIVE normalizeFields(_, _, _, _, _, _)
\* acc holds what the reduce and its closure carry: `to` (the byId under
\* construction), idsArray, maxNestedDepth and the number of ids issued
normalizeFields(props, acc, paths, nestedDepth, isMultiField, parentId) ==
  IF props = <<>> THEN acc
  ELSE
    LET field == Head(props)
        propName == field.name
        id == getUniqueId(acc.issued)
        meta == getFieldMeta(field, boolString(isMultiField))
        descend == meta.hasChildFields \/ meta.hasMultiFields
        nextDepth == nextDepthOf(meta, nestedDepth)
        sub == IF descend
               THEN normalizeFields(
                      childContainer(field, meta.childFieldsName).entries,
                      [to |-> acc.to, idsArray |-> <<>>,
                       maxNestedDepth |-> trackMaxDepth(acc.maxNestedDepth, nextDepth),
                       issued |-> id],
                      Append(paths, propName), nextDepth, meta.canHaveMultiFields, id)
               ELSE [to |-> acc.to, idsArray |-> <<>>,
                     maxNestedDepth |-> acc.maxNestedDepth, issued |-> id]
        filled == IF descend
                  THEN [meta EXCEPT !.childFields = [present |-> TRUE, ids |-> sub.idsArray]]
                  ELSE meta
        row == normalizedField(id, parentId, nestedDepth, isMultiField,
                               normalizedPath(paths, propName), field, filled)
    IN normalizeFields(Tail(props),
                       [to |-> (id :> row) @@ sub.to,
                        idsArray |-> Append(acc.idsArray, id),
                        maxNestedDepth |-> sub.maxNestedDepth,
                        issued |-> sub.issued],
                       paths, nestedDepth, isMultiField, parentId)

EmptyById == [id \in {} |-> 0]

normalize(fieldsToNormalize) ==
  LET done == normalizeFields(fieldsToNormalize,
                              [to |-> EmptyById, idsArray |-> <<>>,
                               maxNestedDepth |-> 0, issued |-> 0],
                              <<>>, 0, FALSE, NoId)
  IN [byId |-> done.to, rootLevelFields |-> done.idsArray,
      maxNestedDepth |-> done.maxNestedDepth]

\* ------------------------------------------------------------- deNormalize
\* to[name] = field on an object kept in insertion order
setKey(to, name, field) ==
  IF \E i \in 1..Len(to) : to[i].name = name
  THEN [i \in 1..Len(to) |-> IF to[i].name = name THEN field ELSE to[i]]
  ELSE Append(to, field)

RECURSIVE deNormalizePaths(_, _, _)
deNormalizePaths(byId, ids, to) ==
  IF ids = <<>> THEN to
  ELSE
    LET row == byId[Head(ids)]
        bare == [name |-> row.source.name, type |-> row.source.type,
                 properties |-> NoContainer, fields |-> NoContainer]
        field ==
          IF row.childFields.present
          THEN IF row.childFieldsName = "properties"
               THEN [bare EXCEPT !.properties =
                       Container(deNormalizePaths(byId, row.childFields.ids, <<>>))]
               ELSE [bare EXCEPT !.fields =
                       Container(deNormalizePaths(byId, row.childFields.ids, <<>>))]
          ELSE bare
    IN deNormalizePaths(byId, Tail(ids), setKey(to, row.source.name, field))

deNormalize(normalized) ==
  deNormalizePaths(normalized.byId, normalized.rootLevelFields, <<>>)

\* ------------------------------------------- updateFieldsPathAfterFieldNameChange
\* _paths.length === 0 ? name : `${_paths.join('.')}.${name}`
updatedPath(paths, name) ==
  IF Len(paths) = 0 THEN name ELSE join(paths) \o <<".">> \o name

\* a variant of childPaths that hands the children the parent's own prefix
childPathsStale(paths, name) == paths

\* [..._paths, name]
childPaths(paths, name) == Append(paths, name)

\* { ..._field, path }
withPath(field, path) == [field EXCEPT !.path = path]

\* const updatedById = { ...byId }: the two tables the call works on, the one
\* passed in and the copy it writes to
copyOf(byId) == [passedIn |-> byId, updatedById |-> byId]

\* a variant of writeRow for `updatedById = byId`: one table under two names
writeRowInPlace(tables, id, row) ==
  [tables EXCEPT !.updatedById = (id :> row) @@ @, !.passedIn = (id :> row) @@ @]

\* updatedById[_field.id] = row
writeRow(tables, id, row) ==
  [tables EXCEPT !.updatedById = (id :> row) @@ @]

RECURSIVE updateFieldPath(_, _, _)
RECURSIVE updateChildPaths(_, _, _)
updateFieldPath(field, paths, tables) ==
  LET name == field.source.name
      written == writeRow(tables, field.id, withPath(field, updatedPath(paths, name)))
  IN IF field.hasChildFields \/ field.hasMultiFields
     THEN updateChildPaths(field.childFields.ids, childPaths(paths, name), written)
     ELSE written

\* childFields.map(fieldId => byId[fieldId]).forEach(...)
updateChildPaths(ids, paths, tables) ==
  IF ids = <<>> THEN tables
  ELSE updateChildPaths(Tail(ids), paths,
                        updateFieldPath(tables.passedIn[Head(ids)], paths, tables))

updateFieldsPathAfterFieldNameChange(field, byId) ==
  LET paths == IF field.parentId # NoId THEN split(byId[field.parentId].path) ELSE <<>>
      tables == updateFieldPath(field, paths, copyOf(byId))
  IN [path |-> tables.updatedById[field.id].path,
      byId |-> tables.updatedById,
      passedIn |-> tables.passedIn]

\* ------------------------------------------------------------- getAllChildFields
RECURSIVE getChildFields(_, _, _)
RECURSIVE pushChildFields(_, _, _)
getChildFields(field, to, byId) ==
  IF field.hasChildFields \/ field.hasMultiFields
  THEN pushChildFields(field.childFields.ids, to, byId)
  ELSE to

\* forEach(childField => { to.push(childField); getChildFields(childField, to) })
pushChildFields(ids, to, byId) ==
  IF ids = <<>> THEN to
  ELSE pushChildFields(Tail(ids),
                       getChildFields(byId[Head(ids)], Append(to, byId[Head(ids)]), byId),
                       byId)

\* a variant of getAllChildFields that stops at the row's own children
getDirectChildFields(field, byId) ==
  IF field.hasChildFields \/ field.hasMultiFields
  THEN [i \in 1..Len(field.childFields.ids) |-> byId[field.childFields.ids[i]]]
  ELSE <<>>

getAllChildFields(field, byId) == getChildFields(field, <<>>, byId)

\* ------------------------------------------------------------- getMaxNestedDepth
RECURSIVE maxDepthOver(_, _, _)
maxDepthOver(byId, ids, maxDepth) ==
  IF ids = {} THEN maxDepth
  ELSE LET id == CHOOSE i \in ids : TRUE
       IN maxDepthOver(byId, ids \ {id}, Max(maxDepth, byId[id].nestedDepth))

getMaxNestedDepth(byId) == maxDepthOver(byId, DOMAIN byId, 0)

\* ------------------------------------- shouldDeleteChildFieldsAfterTypeChange
\* a variant of shouldDeleteChildFieldsAfterTypeChange without its last branch
shouldDeleteWithoutNested(oldType, newType) ==
  IF oldType = "text" /\ newType # "keyword" THEN TRUE
  ELSE IF oldType = "keyword" /\ newType # "text" THEN TRUE
  ELSE IF oldType = "object" /\ newType # "nested" THEN TRUE
  ELSE FALSE

shouldDeleteChildFieldsAfterTypeChange(oldType, newType) ==
  IF oldType = "text" /\ newType # "keyword" THEN TRUE
  ELSE IF oldType = "keyword" /\ newType # "text" THEN TRUE
  ELSE IF oldType = "object" /\ newType # "nested" THEN TRUE
  ELSE IF oldType = "nested" /\ newType # "object" THEN TRUE
  ELSE FALSE

\* ------------------------------------------------------------- isStateValid
stateWithValidity == {"configuration", "fieldsJsonEditor", "fieldForm"}

\* a section of the State: undefined, or an object whose isValid is
\* "true", "false" or "undefined"
NoSection == [present |-> FALSE, isValid |-> "undefined"]
Section(isValid) == [present |-> TRUE, isValid |-> isValid]

\* isValid && value.isValid on two booleans
andValid(a, b) == IF a = "true" THEN b ELSE a

\* a variant of validityStep in which `false` wins over `undefined`
validityStepFalseFirst(isValid, value) ==
  IF ~value.present THEN isValid
  ELSE IF isValid = "false" \/ value.isValid = "false" THEN "false"
  ELSE IF isValid = "undefined" \/ value.isValid = "undefined" THEN "undefined"
  ELSE andValid(isValid, value.isValid)

\* the reducer: one step over a kept entry's value
validityStep(isValid, value) ==
  IF ~value.present THEN isValid
  ELSE IF isValid = "undefined" \/ value.isValid = "undefined" THEN "undefined"
  ELSE andValid(isValid, value.isValid)

\* Object.entries(state).filter(([key]) => stateWithValidity.includes(key))
RECURSIVE keptEntries(_)
keptEntries(entries) ==
  IF entries = <<>> THEN <<>>
  ELSE IF Head(entries).key \in stateWithValidity
       THEN <<Head(entries)>> \o keptEntries(Tail(entries))
       ELSE keptEntries(Tail(entries))

RECURSIVE reduceValidity(_, _)
reduceValidity(entries, isValid) ==
  IF entries = <<>> THEN isValid
  ELSE reduceValidity(Tail(entries), validityStep(isValid, Head(entries).value))

isStateValid(state) == reduceValidity(keptEntries(state), "true")

\* ------------------------------------------------------------- the editor's calls
VARIABLES
  pc,                 \* which call was made last
  fieldsToNormalize,  \* the Fields object handed to normalize
  normalized,         \* what normalize returned
  current,            \* the byId the caller holds as current
  renames,            \* renames applied to it so far
  denormalized,       \* what deNormalize returned
  collected,          \* the last getAllChildFields call
  renamed,            \* the last updateFieldsPathAfterFieldNameChange call
  args,               \* the arguments of a call of one of the other functions
  returned            \* what that call returned

vars == <<pc, fieldsToNormalize, normalized, current, renames, denormalized,
          collected, renamed, args, returned>>

NoNormalized == [byId |-> EmptyById, rootLevelFields |-> <<>>, maxNestedDepth |-> 0]
NoCollected == [id |-> NoId, fields |-> <<>>]
NoRenamed == [id |-> NoId, path |-> <<>>, before |-> EmptyById, passedIn |-> EmptyById]
NoArgs == <<>>
NoReturn == <<>>

\* the state of everything the tree functions work on, before any call
NoTree ==
  /\ fieldsToNormalize = <<>>
  /\ normalized = NoNormalized
  /\ current = EmptyById
  /\ renames = 0
  /\ denormalized = <<>>
  /\ collected = NoCollected
  /\ renamed = NoRenamed

treeVars == <<fieldsToNormalize, normalized, current, renames, denormalized,
              collected, renamed>>

Init ==
  /\ pc = "input"
  /\ fieldsToNormalize \in FieldsFrom(MaxFields, 1)
  /\ normalized = NoNormalized
  /\ current = EmptyById
  /\ renames = 0
  /\ denormalized = <<>>
  /\ collected = NoCollected
  /\ renamed = NoRenamed
  /\ args = NoArgs
  /\ returned = NoReturn

Normalize ==
  /\ pc = "input"
  /\ normalized' = normalize(fieldsToNormalize)
  /\ current' = normalized'.byId
  /\ pc' = "normalized"
  /\ UNCHANGED <<fieldsToNormalize, renames, denormalized, collected, renamed,
                 args, returned>>

\* deNormalize of what normalize returned
DeNormalize ==
  /\ pc = "normalized"
  /\ denormalized' = deNormalize(normalized)
  /\ pc' = "denormalized"
  /\ UNCHANGED <<fieldsToNormalize, normalized, current, renames, collected,
                 renamed, args, returned>>

\* getAllChildFields of a row of the table normalize returned; the call
\* assigns to nothing but its own list
GetAllChildFields ==
  /\ pc = "normalized"
  /\ \E id \in DOMAIN current :
       collected' = [id |-> id, fields |-> getAllChildFields(current[id], current)]
  /\ pc' = "collected"
  /\ UNCHANGED <<fieldsToNormalize, normalized, current, renames, denormalized,
                 renamed, args, returned>>

\* the caller puts the new name on the row, calls, and adopts the returned byId
Rename ==
  /\ pc \in {"normalized", "renamed"}
  /\ renames < MaxRenames
  /\ \E id \in DOMAIN current, name \in NewNames :
       LET field == [current[id] EXCEPT !.source.name = name]
           result == updateFieldsPathAfterFieldNameChange(field, current)
       IN /\ renamed' = [id |-> id, path |-> result.path,
                         before |-> current, passedIn |-> result.passedIn]
          /\ current' = result.byId
  /\ renames' = renames + 1
  /\ pc' = "renamed"
  /\ UNCHANGED <<fieldsToNormalize, normalized, denormalized, collected,
                 args, returned>>

Next == Normalize \/ DeNormalize \/ GetAllChildFields \/ Rename

Spec == Init /\ [][Next]_vars

\* ------------------------------------------------------------- getFieldMeta calls
RECURSIVE LeafFields(_)
\* a container of n childless fields
LeafFields(n) ==
  IF n = 0 THEN <<>>
  ELSE Append(LeafFields(n - 1),
              [name |-> NameAt(n), type |-> "keyword",
               properties |-> NoContainer, fields |-> NoContainer])

MetaContainers == {NoContainer} \cup {Container(LeafFields(n)) : n \in 0..MaxEntries}

MetaArgs ==
  [field : [name : {NameAt(1)}, type : DataTypes \cup {Unrecognized},
            properties : MetaContainers, fields : MetaContainers],
   isMultiField : {"true", "false", "undefined"}]

InitMeta ==
  /\ pc = "args"
  /\ args \in MetaArgs
  /\ returned = NoReturn
  /\ NoTree

GetFieldMeta ==
  /\ pc = "args"
  /\ returned' = getFieldMeta(args.field, args.isMultiField)
  /\ pc' = "returned"
  /\ UNCHANGED <<args, treeVars>>

NextMeta == GetFieldMeta

SpecMeta == InitMeta /\ [][NextMeta]_vars

\* ---------------------------------- shouldDeleteChildFieldsAfterTypeChange calls
InitTypeChange ==
  /\ pc = "args"
  /\ args \in [oldType : DataTypes, newType : DataTypes]
  /\ returned = NoReturn
  /\ NoTree

ShouldDeleteChildFields ==
  /\ pc = "args"
  /\ returned' = shouldDeleteChildFieldsAfterTypeChange(args.oldType, args.newType)
  /\ pc' = "returned"
  /\ UNCHANGED <<args, treeVars>>

NextTypeChange == ShouldDeleteChildFields

SpecTypeChange == InitTypeChange /\ [][NextTypeChange]_vars

\* ------------------------------------------------------------- isStateValid calls
StateKeys == {"configuration", "fieldsJsonEditor", "fieldForm", "documentFields"}
SectionValues == {NoSection, Section("true"), Section("false"), Section("undefined")}

\* every State object of at most MaxSections keys, in every key order
States ==
  UNION { { s \in [1..n -> [key : StateKeys, value : SectionValues]] :
              \A i, j \in 1..n : i # j => s[i].key # s[j].key }
          : n \in 0..MaxSections }

InitValid ==
  /\ pc = "args"
  /\ args \in States
  /\ returned = NoReturn
  /\ NoTree

IsStateValid ==
  /\ pc = "args"
  /\ returned' = isStateValid(args)
  /\ pc' = "returned"
  /\ UNCHANGED <<args, treeVars>>

NextValid == IsStateValid

SpecValid == InitValid /\ [][NextValid]_vars

\* ------------------------------------------------------------- properties

RECURSIVE nameChain(_, _, _)
\* the source.name values along the parentId chain, root-level ancestor first;
\* `fuel` bounds the walk
nameChain(byId, id, fuel) ==
  IF byId[id].parentId = NoId \/ fuel = 0 THEN <<byId[id].source.name>>
  ELSE Append(nameChain(byId, byId[id].parentId, fuel - 1), byId[id].source.name)

RECURSIVE reachesRoot(_, _, _)
\* the parentId chain from id ends at a root-level row within `fuel` steps
reachesRoot(table, id, fuel) ==
  IF id \notin DOMAIN table.byId THEN FALSE
  ELSE IF table.byId[id].parentId = NoId
       THEN \E i \in 1..Len(table.rootLevelFields) : table.rootLevelFields[i] = id
       ELSE fuel > 0 /\ reachesRoot(table, table.byId[id].parentId, fuel - 1)

RECURSIVE isBelow(_, _, _, _)
\* row id is a transitive descendant of row top
isBelow(byId, id, top, fuel) ==
  /\ byId[id].parentId # NoId
  /\ \/ byId[id].parentId = top
     \/ fuel > 0 /\ isBelow(byId, byId[id].parentId, top, fuel - 1)

descendants(byId, top) ==
  {id \in DOMAIN byId : isBelow(byId, id, top, Cardinality(DOMAIN byId))}

\* how often id occurs in the list ids
occurrences(ids, id) == Cardinality({i \in 1..Len(ids) : ids[i] = id})

\* how often id occurs over rootLevelFields and every childFields list
linkCount(table, id) ==
  LET byId == table.byId
      perRow == [k \in DOMAIN byId |->
                   IF byId[k].childFields.present
                   THEN occurrences(byId[k].childFields.ids, id) ELSE 0]
      RECURSIVE sum(_)
      sum(ks) == IF ks = {} THEN 0
                 ELSE LET k == CHOOSE x \in ks : TRUE IN perRow[k] + sum(ks \ {k})
  IN occurrences(table.rootLevelFields, id) + sum(DOMAIN byId)

\* every id a list of the table names
linkedIds(table) ==
  {table.rootLevelFields[i] : i \in 1..Len(table.rootLevelFields)} \cup
  UNION { {table.byId[k].childFields.ids[i] : i \in 1..Len(table.byId[k].childFields.ids)}
          : k \in DOMAIN table.byId }

\* C1: deNormalize(normalize(T)) is T, for every input tree T: the same
\* names at every level, the same types, the same containers with the same
\* entries (empty containers and containers of multi-field members included).
C1_RoundTrip ==
  pc = "denormalized" => denormalized = fieldsToNormalize

\* C2: in a table normalize returned, a root-level row has nestedDepth 0, a
\* row in the `properties` of its parent has the parent's nestedDepth + 1,
\* and a multi-field row (in the `fields` of its parent) has the parent's
\* nestedDepth.
C2_DepthRule ==
  pc = "normalized" =>
    \A id \in DOMAIN normalized.byId :
      LET row == normalized.byId[id]
          parent == normalized.byId[row.parentId]
      IN /\ row.parentId = NoId => row.nestedDepth = 0
         /\ (row.parentId # NoId /\ parent.childFieldsName = "properties")
              => row.nestedDepth = parent.nestedDepth + 1
         /\ (row.parentId # NoId /\ parent.childFieldsName = "fields")
              => row.nestedDepth = parent.nestedDepth

\* C3: from normalize(T) on and after every rename, each row's path is the
\* dot-join of the current names along its parentId chain, root-level
\* ancestor first; the path a rename returns is the renamed row's new path.
C3_PathDerivation ==
  /\ \A id \in DOMAIN current :
       current[id].path = join(nameChain(current, id, Cardinality(DOMAIN current)))
  /\ pc = "renamed" =>
       /\ renamed.path = current[renamed.id].path
       /\ current[renamed.id].source.name \in NewNames

C3_Witness ==
  /\ pc = "renamed"
  /\ renames = 2
  /\ \E child, grandchild \in DOMAIN current :
       /\ current[child].parentId = renamed.id
       /\ current[grandchild].parentId = child
       /\ current[grandchild].path # renamed.before[grandchild].path
       /\ current[child].source.name \in NewNames

C8_RenameFrame ==
  pc = "renamed" =>
    LET below == descendants(renamed.before, renamed.id)
    IN /\ renamed.passedIn = renamed.before
       /\ DOMAIN current = DOMAIN renamed.before
       /\ \A id \in DOMAIN current \ (below \cup {renamed.id}) :
            current[id] = renamed.before[id]
       /\ \A id \in below :
            [current[id] EXCEPT !.path = renamed.before[id].path] = renamed.before[id]

C8_Witness ==
  /\ pc = "renamed"
  /\ \E id \in descendants(renamed.before, renamed.id) :
       current[id].path # renamed.before[id].path
  /\ \E id \in DOMAIN current :
       /\ id \notin descendants(renamed.before, renamed.id) \cup {renamed.id}
       /\ current[id].path = renamed.before[id].path

\* C9: maxNestedDepth of normalize(T) is the largest nestedDepth of its rows
\* (0 for no rows), which is getMaxNestedDepth of its byId.
C9_MaxNestedDepth ==
  pc # "input" =>
    LET byId == normalized.byId
    IN /\ normalized.maxNestedDepth = getMaxNestedDepth(byId)
       /\ \A id \in DOMAIN byId : byId[id].nestedDepth <= normalized.maxNestedDepth
       /\ DOMAIN byId # {} =>
            \E id \in DOMAIN byId : byId[id].nestedDepth = normalized.maxNestedDepth
       /\ DOMAIN byId = {} => normalized.maxNestedDepth = 0

C9_Witness ==
  /\ pc = "normalized"
  /\ normalized.maxNestedDepth = 2
  /\ \E id \in DOMAIN normalized.byId : normalized.byId[id].nestedDepth = 1

C6_StateValid ==
  pc = "returned" =>
    LET counted == {i \in 1..Len(args) :
                      /\ args[i].key \in {"configuration", "fieldsJsonEditor", "fieldForm"}
                      /\ args[i].value.present}
    IN returned =
         IF \E i \in counted : args[i].value.isValid = "undefined" THEN "undefined"
         ELSE IF \A i \in counted : args[i].value.isValid = "true" THEN "true"
         ELSE "false"

C6_Witness ==
  /\ pc = "returned"
  /\ Len(args) = 3
  /\ args[1].key = "fieldForm" /\ args[1].value = Section("false")
  /\ args[2].key = "documentFields" /\ args[2].value = Section("true")
  /\ args[3].key = "configuration" /\ args[3].value = Section("undefined")
  /\ returned = "undefined"

\* C7: for two distinct data types, shouldDeleteChildFieldsAfterTypeChange
\* is true exactly when oldType is text, keyword, object or nested and
\* newType does not use the child-container name oldType uses.
C7_ShouldDelete ==
  (pc = "returned" /\ args.oldType # args.newType) =>
    (returned <=>
       /\ args.oldType \in {"text", "keyword", "object", "nested"}
       /\ getChildFieldsName(args.newType) # getChildFieldsName(args.oldType))

C7_Witness ==
  /\ pc = "returned"
  /\ args.oldType = "nested"
  /\ args.newType = "keyword"
  /\ returned = TRUE

====
